---- MODULE Spec2Model ----
(***************************************************************************)
(* Konva export demo (src/src/index.js): the shape collection held by the  *)
(* App component, its generation, the drag-end / transform-end updates and *)
(* the four export handlers.                                               *)
(*                                                                         *)
(* Representation of JavaScript values                                     *)
(*  - an object is a record (a function on its keys); {...a, ...b} is      *)
(*    b @@ a;                                                              *)
(*  - x, y and rotation are Numbers with integer values.  Number           *)
(*    arithmetic on them is binary floating point with MantissaBits bits   *)
(*    of significand, rounding to nearest, ties to even (IEEE-754; 53 bits *)
(*    in JavaScript): every integer of magnitude up to 2^MantissaBits is   *)
(*    exact, larger ones are rounded;                                      *)
(*  - a Number that may be fractional (opacity, the scaled size            *)
(*    attributes, width and height) is the reduced fraction <<n, d>>;      *)
(*  - a string is a TLA+ string; Characters gives the characters of the    *)
(*    strings whose characters the program reads.                          *)
(***************************************************************************)
EXTENDS Integers, Sequences, FiniteSets, TLC

\* ------------------------------------------------------------------ bounds
\* Number of shapes of the collection (10000 in the source).
SHAPE_COUNT == 2
\* Number of user events (updates and exports) after generation.
MaxEvents == 3
\* Bits of significand of a Number (53 in JavaScript).
MantissaBits == 15
\* Math.random() returns k / RandomResolution for an integer 0 <= k < RandomResolution.
RandomResolution == 65536

\* --------------------------------------------------------------- constants
STAGE_WIDTH == 10000
STAGE_HEIGHT == 10000

\* ----------------------------------------------------------------- numbers
RECURSIVE Pow2(_)
Pow2(n) == IF n = 0 THEN 1 ELSE 2 * Pow2(n - 1)

Abs(v) == IF v < 0 THEN 0 - v ELSE v

RECURSIVE GCD(_, _)
GCD(a, b) == IF b = 0 THEN a ELSE GCD(b, a % b)

\* The fraction n / d (d > 0), reduced.
Ratio(n, d) == LET g == GCD(Abs(n), d) IN <<n \div g, d \div g>>

RatioMul(a, b) == Ratio(a[1] * b[1], a[2] * b[2])

\* The spacing of the Numbers around magnitude a: the least power of two q
\* (from q up) with a < 2^MantissaBits * q.
RECURSIVE Quantum(_, _)
Quantum(a, q) == IF a < Pow2(MantissaBits) * q THEN q ELSE Quantum(a, 2 * q)

\* The Number nearest to the integer v, ties to the even significand.
FRound(v) ==
  LET a == Abs(v)
      q == Quantum(a, 1)
      m == a \div q
      rem == a % q
      up == \/ 2 * rem > q
            \/ (2 * rem = q /\ m % 2 = 1)
      r == (IF up THEN m + 1 ELSE m) * q
  IN IF v < 0 THEN 0 - r ELSE r

\* a - b on Numbers.
\* mutant: lastX - x
FSubSwapped(a, b) == FRound(b - a)

FSub(a, b) == FRound(a - b)

\* ----------------------------------------------------------------- strings
\* The characters of the shape type names.
Characters ==
  [rect     |-> <<"r", "e", "c", "t">>,
   circle   |-> <<"c", "i", "r", "c", "l", "e">>,
   text     |-> <<"t", "e", "x", "t">>,
   star     |-> <<"s", "t", "a", "r">>,
   triangle |-> <<"t", "r", "i", "a", "n", "g", "l", "e">>,
   hexagon  |-> <<"h", "e", "x", "a", "g", "o", "n">>]

\* String.prototype.charAt: the character at (zero-based) index n, "" beyond the end.
charAt(s, n) == IF n < Len(Characters[s]) THEN Characters[s][n + 1] ELSE ""

\* ------------------------------------------------------- module constants
CommonPropsLiteral == [shadowBlur |-> 5, opacity |-> Ratio(75, 100)]

ShapeDefaultsLiteral ==
  [rect     |-> [width |-> 100, height |-> 100],
   circle   |-> [radius |-> 50],
   text     |-> [text |-> "U+2605", fontSize |-> 100],
   star     |-> [numPoints |-> 5, innerRadius |-> 50, outerRadius |-> 100],
   triangle |-> [sides |-> 3, radius |-> 100],
   hexagon  |-> [sides |-> 6, radius |-> 100]]

\* The template keys whose value is a string (typeof value # "number").
StringKeys == {"text"}

shapeTypes == <<"rect", "circle", "text", "star", "triangle", "hexagon">>

colors == <<"#F00", "#0F0", "#00F", "#FF0", "#F0F", "#0FF">>

VARIABLES
  shapes,            \* App state: the shape collection (index i of the code is i + 1 here)
  isLoading,         \* App state
  lastExportMethod,  \* App state
  payload,           \* the object serialized into the blob of the last export
  lastX, lastY,      \* handleCompressedExport's accumulators, as its last call left them
  COMMON_PROPS,      \* the module-level objects (const bindings, mutable contents)
  SHAPE_DEFAULTS,
  selectedId,        \* App state ("null" for null)
  lastEvent,         \* the last handler that wrote shapes or exported, its shape
                     \* index, and the handler before it
  nEvents            \* updates and exports so far

vars == <<shapes, isLoading, lastExportMethod, payload, lastX, lastY,
          COMMON_PROPS, SHAPE_DEFAULTS, selectedId, lastEvent, nEvents>>

\* ------------------------------------------------------------- generation
\* Math.floor(r * n) for r = k / RandomResolution.
FloorTimes(k, n) == (k * n) \div RandomResolution

\* mutant: the offset min left out
getRandomIntNoMin(min, max, k) == FloorTimes(k, max - min + 1)

getRandomInt(min, max, k) == FloorTimes(k, max - min + 1) + min

getRandomColor(k) == colors[FloorTimes(k, Len(colors)) + 1]

\* typeof value === "number" ? (value * size) / 100 : value, over the template's entries.
scaledDefaults(shapeDefaults, size) ==
  [key \in DOMAIN shapeDefaults |->
     IF key \notin StringKeys
       THEN Ratio(shapeDefaults[key] * size, 100)
       ELSE shapeDefaults[key]]

\* mutant: ids counted from 1
shapeIdOneBased(i) == ToString(i + 1)

\* id: i.toString()
shapeId(i) == ToString(i)

\* One iteration of the loop of generateShapes: d is the outcome of its six
\* Math.random() calls, in call order.
GenerateShape(i, d, commonProps, defaults) ==
  LET shapeType == shapeTypes[FloorTimes(d[1], Len(shapeTypes)) + 1]
      x == getRandomInt(0, STAGE_WIDTH, d[2])
      y == getRandomInt(0, STAGE_HEIGHT, d[3])
      size == getRandomInt(50, 150, d[4])
      rotation == getRandomInt(0, 360, d[5])
      color == getRandomColor(d[6])
      baseProps == commonProps @@
                   [id |-> shapeId(i), x |-> x, y |-> y, fill |-> color,
                    rotation |-> rotation, type |-> shapeType]
  IN scaledDefaults(defaults[shapeType], size) @@ baseProps

generateShapes(tape, commonProps, defaults) ==
  [j \in 1..SHAPE_COUNT |-> GenerateShape(j - 1, tape[j], commonProps, defaults)]

\* Outcomes of the random source.  A draw pattern is the six outcomes of one
\* loop iteration.
RandomMax == RandomResolution - 1

\* One outcome per shape type (type k for k = 0..5), the first and the last
\* being the extreme outcomes of Math.random().
KindSamples ==
  {0, RandomMax} \cup {((2 * k + 1) * RandomResolution) \div 12 : k \in 1..4}

\* The initial effect's draws: all shape types, and both extreme outcomes for
\* the x draw, for the y draw and for the size / rotation / colour draws.
GenDraws ==
  {<<k, p, q, s, s, s>> :
     k \in KindSamples, p \in {0, RandomMax}, q \in {0, RandomMax}, s \in {0, RandomMax}}

\* A session's draws: within one shape every draw has the same outcome, one
\* of 0 (a rect), 2/5 (a text) and 7/10 (a triangle).
SessionSamples == {0, (2 * RandomResolution) \div 5, (7 * RandomResolution) \div 10}

SessionDraws == {<<r, r, r, r, r, r>> : r \in SessionSamples}

Tapes(draws) == [1..SHAPE_COUNT -> draws]

Init ==
  /\ shapes = <<>>
  /\ isLoading = TRUE
  /\ lastExportMethod = ""
  /\ payload = <<>>
  /\ lastX = 0
  /\ lastY = 0
  /\ COMMON_PROPS = CommonPropsLiteral
  /\ SHAPE_DEFAULTS = ShapeDefaultsLiteral
  /\ selectedId = "null"
  /\ lastEvent = [op |-> "mount", i |-> 0, prev |-> ""]
  /\ nEvents = 0

\* useEffect(() => { setShapes(generateShapes()); setIsLoading(false); }, [])
MountEffect(draws) ==
  /\ isLoading
  /\ \E tape \in Tapes(draws) :
       shapes' = generateShapes(tape, COMMON_PROPS, SHAPE_DEFAULTS)
  /\ isLoading' = FALSE
  /\ lastEvent' = [op |-> "generate", i |-> 0, prev |-> lastEvent.op]
  /\ UNCHANGED <<lastExportMethod, payload, lastX, lastY, COMMON_PROPS,
                 SHAPE_DEFAULTS, selectedId, nEvents>>

Generate == MountEffect(SessionDraws)

GenerateAny == MountEffect(GenDraws)

\* ------------------------------------------------------------------ updates
\* App's onChange for the shape at index i:
\*   const newShapes = shapes.slice(); newShapes[i] = newAttrs; setShapes(newShapes)
\* mutant: the write lands one index early
onChangeOffByOne(shs, i, newAttrs) == [shs EXCEPT ![i] = newAttrs]

onChange(shs, i, newAttrs) == [shs EXCEPT ![i + 1] = newAttrs]

\* Shape.onDragEnd: { ...shapeProps, x: e.target.x(), y: e.target.y() }
dragEndAttrs(shapeProps, target) ==
  [x |-> target[1], y |-> target[2]] @@ shapeProps

\* Shape.onTransformEnd: { ...shapeProps, x: node.x(), y: node.y(),
\*   width: node.width() * scaleX, height: node.height() * scaleY,
\*   rotation: node.rotation() }
transformEndAttrs(shapeProps, node) ==
  [x        |-> node.x,
   y        |-> node.y,
   width    |-> RatioMul(node.width, node.scaleX),
   height   |-> RatioMul(node.height, node.scaleY),
   rotation |-> node.rotation] @@ shapeProps

\* Positions a drag can end at (e.target.x(), e.target.y()): beyond the
\* range of exact integers in one coordinate, next to the origin in the other.
BigCoord == Pow2(MantissaBits) + 2

DragTargets == {<<BigCoord, 1>>, <<1, BigCoord>>}

\* States of the Konva node at the end of a transform gesture.
TransformNodes ==
  {[x |-> 10, y |-> 20, width |-> Ratio(100, 1), height |-> Ratio(50, 1),
    scaleX |-> Ratio(3, 2), scaleY |-> Ratio(2, 1), rotation |-> 45],
   [x |-> 15, y |-> 5, width |-> Ratio(81, 2), height |-> Ratio(81, 2),
    scaleX |-> Ratio(1, 2), scaleY |-> Ratio(1, 1), rotation |-> 0 - 30]}

ShapeIndexes == 0..(Len(shapes) - 1)

\* The UI is rendered, and the event budget allows one more user event.
CanHandle == ~isLoading /\ nEvents < MaxEvents

\* onClick / onTap of a shape: setSelectedId(shape.id)
onSelect(i) ==
  /\ ~isLoading
  /\ i \in ShapeIndexes
  /\ selectedId' = shapes[i + 1].id
  /\ UNCHANGED <<shapes, isLoading, lastExportMethod, payload, lastX, lastY,
                 COMMON_PROPS, SHAPE_DEFAULTS, lastEvent, nEvents>>

\* checkDeselect with a click on the empty stage: setSelectedId(null)
checkDeselect ==
  /\ ~isLoading
  /\ selectedId' = "null"
  /\ UNCHANGED <<shapes, isLoading, lastExportMethod, payload, lastX, lastY,
                 COMMON_PROPS, SHAPE_DEFAULTS, lastEvent, nEvents>>

onDragEnd(i) ==
  /\ CanHandle
  /\ i \in ShapeIndexes
  /\ \E target \in DragTargets :
       shapes' = onChange(shapes, i, dragEndAttrs(shapes[i + 1], target))
  /\ lastEvent' = [op |-> "dragEnd", i |-> i, prev |-> lastEvent.op]
  /\ nEvents' = nEvents + 1
  /\ UNCHANGED <<isLoading, lastExportMethod, payload, lastX, lastY,
                 COMMON_PROPS, SHAPE_DEFAULTS, selectedId>>

\* The Transformer is rendered for the selected shape only.
onTransformEnd(i) ==
  /\ CanHandle
  /\ i \in ShapeIndexes
  /\ shapes[i + 1].id = selectedId
  /\ \E node \in TransformNodes :
       shapes' = onChange(shapes, i, transformEndAttrs(shapes[i + 1], node))
  /\ lastEvent' = [op |-> "transformEnd", i |-> i, prev |-> lastEvent.op]
  /\ nEvents' = nEvents + 1
  /\ UNCHANGED <<isLoading, lastExportMethod, payload, lastX, lastY,
                 COMMON_PROPS, SHAPE_DEFAULTS, selectedId>>

\* ------------------------------------------------------------------ exports
\* stageRef.current.toJSON(): the stage's node tree with every node's attributes.
stageToObject(shs) == [className |-> "Stage", children |-> shs]

\* ({ id, x, y, fill, rotation, type }) => ({ i: id, x, y, f: fill, r: rotation, t: type.charAt(0) })
\* mutant: x and y exchanged
optimizedShapeSwapped(s) ==
  [i |-> s.id, x |-> s.y, y |-> s.x, f |-> s.fill, r |-> s.rotation,
   t |-> charAt(s.type, 0)]

\* mutant: a common style attribute repeated in every record
optimizedShapeWithStyle(s) ==
  [i |-> s.id, x |-> s.x, y |-> s.y, f |-> s.fill, r |-> s.rotation,
   t |-> charAt(s.type, 0), o |-> s.opacity]

optimizedShape(s) ==
  [i |-> s.id, x |-> s.x, y |-> s.y, f |-> s.fill, r |-> s.rotation,
   t |-> charAt(s.type, 0)]

optimizedShapes(shs) == [j \in 1..Len(shs) |-> optimizedShape(shs[j])]

\* shapes.map with the running lastX, lastY, from the j-th shape on: the
\* records, and the accumulators' final values.
RECURSIVE compressedFrom(_, _, _, _)
compressedFrom(shs, j, lx, ly) ==
  IF j > Len(shs)
    THEN [s |-> <<>>, lastX |-> lx, lastY |-> ly]
    ELSE LET sh == shs[j]
             deltaX == FSub(sh.x, lx)
             deltaY == FSub(sh.y, ly)
             rest == compressedFrom(shs, j + 1, sh.x, sh.y)
         IN [rest EXCEPT !.s =
               <<[i |-> sh.id, x |-> deltaX, y |-> deltaY, f |-> sh.fill,
                  r |-> sh.rotation, t |-> charAt(sh.type, 0)]>> \o @]

\* mutant: the accumulators never advance, every delta is taken from the seed
compressedShapesStale(shs) ==
  [s |-> [j \in 1..Len(shs) |->
            [i |-> shs[j].id, x |-> FSub(shs[j].x, 0), y |-> FSub(shs[j].y, 0),
             f |-> shs[j].fill, r |-> shs[j].rotation, t |-> charAt(shs[j].type, 0)]],
   lastX |-> 0, lastY |-> 0]

\* let lastX = 0, lastY = 0; const compressedShapes = shapes.map(...)
compressedShapes(shs) == compressedFrom(shs, 1, 0, 0)

\* The object handed to JSON.stringify by the optimized and compressed exports.
exportObject(records) ==
  [v |-> 1, c |-> COMMON_PROPS, d |-> SHAPE_DEFAULTS, s |-> records]

\* downloadAndShowSize(blob, method), for a blob holding the serialization of
\* content.  The blob's byte length (fileSize) is not represented.
downloadAndShowSize(content, method) ==
  /\ payload' = content
  /\ lastExportMethod' = method
  /\ lastEvent' = [op |-> method, i |-> 0, prev |-> lastEvent.op]
  /\ nEvents' = nEvents + 1

handleRegularExport ==
  /\ CanHandle
  /\ downloadAndShowSize(stageToObject(shapes), "regular")
  /\ UNCHANGED <<shapes, isLoading, lastX, lastY, COMMON_PROPS, SHAPE_DEFAULTS,
                 selectedId>>

\* JSON.stringify(JSON.parse(json)) denotes the same object as json.
handleMinifiedExport ==
  /\ CanHandle
  /\ downloadAndShowSize(stageToObject(shapes), "minified")
  /\ UNCHANGED <<shapes, isLoading, lastX, lastY, COMMON_PROPS, SHAPE_DEFAULTS,
                 selectedId>>

handleOptimizedExport ==
  /\ CanHandle
  /\ downloadAndShowSize(exportObject(optimizedShapes(shapes)), "optimized")
  /\ UNCHANGED <<shapes, isLoading, lastX, lastY, COMMON_PROPS, SHAPE_DEFAULTS,
                 selectedId>>

\* mutant: the accumulators kept across calls instead of being reset at each call
handleCompressedExportCarried ==
  /\ CanHandle
  /\ LET c == compressedFrom(shapes, 1, lastX, lastY)
     IN /\ downloadAndShowSize(exportObject(c.s), "compressed")
        /\ lastX' = c.lastX
        /\ lastY' = c.lastY
  /\ UNCHANGED <<shapes, isLoading, COMMON_PROPS, SHAPE_DEFAULTS, selectedId>>

handleCompressedExport ==
  /\ CanHandle
  /\ LET c == compressedShapes(shapes)
     IN /\ downloadAndShowSize(exportObject(c.s), "compressed")
        /\ lastX' = c.lastX
        /\ lastY' = c.lastY
  /\ UNCHANGED <<shapes, isLoading, COMMON_PROPS, SHAPE_DEFAULTS, selectedId>>

Update == \E i \in 0..(SHAPE_COUNT - 1) : onDragEnd(i) \/ onTransformEnd(i)

Select == checkDeselect \/ \E i \in 0..(SHAPE_COUNT - 1) : onSelect(i)

Export ==
  \/ handleRegularExport
  \/ handleMinifiedExport
  \/ handleOptimizedExport
  \/ handleCompressedExport

Next == Generate \/ Select \/ Update \/ Export

Spec == Init /\ [][Next]_vars

\* Generation alone, over the wider set of outcomes of the random source.
NextGen == GenerateAny

SpecGen == Init /\ [][NextGen]_vars

\* ================================================================== claims
\* The payload is the export of the collection as it is now.
Fresh(method) == lastEvent.op = method

ExportMethods == {"regular", "minified", "optimized", "compressed"}

ExportStep == nEvents' = nEvents + 1 /\ lastEvent'.op \in ExportMethods

UpdateStep == nEvents' = nEvents + 1 /\ lastEvent'.op \in {"dragEnd", "transformEnd"}

\* a + b on Numbers.
FAdd(a, b) == FRound(a + b)

\* Decoding of the compressed records: x_i = x_{i-1} + delta_i, from 0.
RECURSIVE prefixSums(_, _, _, _)
prefixSums(records, key, j, acc) ==
  IF j > Len(records)
    THEN <<>>
    ELSE LET v == FAdd(acc, records[j][key])
         IN <<v>> \o prefixSums(records, key, j + 1, v)

Field(shs, key) == [j \in 1..Len(shs) |-> shs[j][key]]

RoundTrips ==
  /\ prefixSums(payload.s, "x", 1, 0) = Field(shapes, "x")
  /\ prefixSums(payload.s, "y", 1, 0) = Field(shapes, "y")

\* Integers of magnitude up to ExactCoord have exact differences.
ExactCoord == Pow2(MantissaBits - 1)

AllExact ==
  \A j \in 1..Len(shapes) :
    Abs(shapes[j].x) <= ExactCoord /\ Abs(shapes[j].y) <= ExactCoord

\* C1 as stated: after a Compressed export of a collection of at least one
\* shape, the running sums (from 0) of the records' x and y are exactly the
\* collection's x and y sequences, whatever updates came before.
C1_DeltaRoundTrip ==
  (Fresh("compressed") /\ Len(shapes) >= 1) => RoundTrips

\* C1 amended: the same, for collections whose x and y are all integers of
\* magnitude at most 2^(MantissaBits - 1) (every generated collection is one).
C1_DeltaRoundTripExact ==
  (Fresh("compressed") /\ Len(shapes) >= 1 /\ AllExact) => RoundTrips

\* A Compressed export after a resize moved the first shape, all coordinates exact.
C1_Witness ==
  /\ Fresh("compressed")
  /\ AllExact
  /\ shapes[1].x = 10
  /\ shapes[2].x # 10
  /\ payload.s[2].x < 0

\* C2: in an Optimized or Compressed payload two records with the same tag
\* t belong to shapes of the same kind.
C2_TagsCollisionFree ==
  (Fresh("optimized") \/ Fresh("compressed")) =>
    \A j, k \in 1..Len(shapes) :
      payload.s[j].t = payload.s[k].t => shapes[j].type = shapes[k].type

\* C3: the Optimized export has one record per shape, in order, whose i, x,
\* y, f, r are the shape's id, x, y, fill, rotation and whose t is the first
\* character of the shape's kind name.
C3_OptimizedRecords ==
  Fresh("optimized") =>
    /\ Len(payload.s) = Len(shapes)
    /\ \A j \in 1..Len(shapes) :
         /\ payload.s[j].i = shapes[j].id
         /\ payload.s[j].x = shapes[j].x
         /\ payload.s[j].y = shapes[j].y
         /\ payload.s[j].f = shapes[j].fill
         /\ payload.s[j].r = shapes[j].rotation
         /\ payload.s[j].t = Characters[shapes[j].type][1]

\* An Optimized export after a drag of one shape and a resize of another.
C3_Witness ==
  /\ Fresh("optimized")
  /\ \E j, k \in 1..Len(shapes) :
       /\ j # k
       /\ shapes[j].x = BigCoord /\ shapes[j].y = 1
       /\ shapes[k].rotation = 45 /\ "width" \in DOMAIN shapes[k]

\* C4: the Compressed records are the Optimized records of the same
\* collection except for x and y, which are the differences from the
\* preceding shape (from 0 for the first), taken in Number arithmetic.
C4_CompressedIsDeltaOfOptimized ==
  Fresh("compressed") =>
    LET o == optimizedShapes(shapes)
        c == payload.s
    IN /\ Len(c) = Len(o)
       /\ \A j \in 1..Len(o) :
            /\ c[j].i = o[j].i /\ c[j].f = o[j].f
            /\ c[j].r = o[j].r /\ c[j].t = o[j].t
            /\ DOMAIN c[j] = DOMAIN o[j]
            /\ c[j].x = FSub(o[j].x, IF j = 1 THEN 0 ELSE o[j - 1].x)
            /\ c[j].y = FSub(o[j].y, IF j = 1 THEN 0 ELSE o[j - 1].y)

\* The first two shapes of the documented scenario: x = 10, 15 and y = 20, 5
\* encode to 10, 5 and 20, -15.
C4_Witness ==
  /\ Fresh("compressed")
  /\ shapes[1].x = 10 /\ shapes[1].y = 20
  /\ shapes[2].x = 15 /\ shapes[2].y = 5
  /\ payload.s[1].x = 10 /\ payload.s[2].x = 5
  /\ payload.s[1].y = 20 /\ payload.s[2].y = 0 - 15

\* C5: an export leaves the collection and the shared constants unchanged,
\* and a Compressed export right after a Compressed export gives the same
\* payload (its accumulators start from 0 again).
C5_ExportsDoNotMutate ==
  [][ExportStep =>
       /\ shapes' = shapes
       /\ COMMON_PROPS' = COMMON_PROPS
       /\ SHAPE_DEFAULTS' = SHAPE_DEFAULTS
       /\ (Fresh("compressed") /\ lastEvent'.op = "compressed" => payload' = payload)
       /\ (lastEvent'.op = "compressed" =>
             /\ payload'.s[1].x = shapes[1].x
             /\ payload'.s[1].y = shapes[1].y)]_vars

\* A Compressed export right after a Compressed export of a collection whose
\* last shape is away from the origin.
C5_Witness ==
  /\ Fresh("compressed")
  /\ lastEvent.prev = "compressed"
  /\ lastX # 0 /\ lastY # 0
  /\ payload.s[1].x = shapes[1].x

\* C7: once generated, the collection has SHAPE_COUNT shapes, the shape at
\* index i has id ToString(i), no two shapes share an id, and no step
\* changes a shape's kind or fill.
C7_IdsNow ==
  ~isLoading =>
    /\ Len(shapes) = SHAPE_COUNT
    /\ \A j \in 1..SHAPE_COUNT : shapes[j].id = ToString(j - 1)
    /\ \A j, k \in 1..SHAPE_COUNT : shapes[j].id = shapes[k].id => j = k

\* C7, second part: no step changes a shape's kind or fill.
C7_KindAndFillKept ==
  ~isLoading =>
    \A j \in 1..SHAPE_COUNT :
      shapes'[j].type = shapes[j].type /\ shapes'[j].fill = shapes[j].fill

\* C7: ids are unique and stable (the invariant above in every state, kind
\* and fill kept by every step).
C7_IdsUniqueAndStable == [](C7_IdsNow) /\ [][C7_KindAndFillKept]_vars

\* Both shapes updated, one by a drag and one by a resize, then exported.
C7_Witness ==
  /\ nEvents = MaxEvents
  /\ lastEvent.op \in ExportMethods
  /\ shapes[1].x = BigCoord
  /\ "width" \in DOMAIN shapes[2] /\ shapes[2].rotation = 0 - 30
  /\ shapes[1].id = "0" /\ shapes[2].id = "1"

\* The collection with every attribute but id, x, y, fill, rotation, type removed.
Projected(shs) ==
  [j \in 1..Len(shs) |->
     [k \in {"id", "x", "y", "fill", "rotation", "type"} |-> shs[j][k]]]

\* C8: an Optimized or Compressed payload has v = 1, the common style and the
\* templates once, with their nominal values, and records of exactly the six
\* fields i, x, y, f, r, t; it is the payload of the collection stripped of
\* its size-derived attributes.
C8_HeaderAndRecords ==
  (Fresh("optimized") \/ Fresh("compressed")) =>
    /\ DOMAIN payload = {"v", "c", "d", "s"}
    /\ payload.v = 1
    /\ payload.c = CommonPropsLiteral
    /\ payload.d = ShapeDefaultsLiteral
    /\ \A j \in 1..Len(payload.s) :
         DOMAIN payload.s[j] = {"i", "x", "y", "f", "r", "t"}
    /\ payload.s = IF Fresh("optimized")
                     THEN optimizedShapes(Projected(shapes))
                     ELSE compressedShapes(Projected(shapes)).s

\* An export of a collection in which a resize gave a shape a width other
\* than its generated one.
C8_Witness ==
  /\ Fresh("optimized") \/ Fresh("compressed")
  /\ \E j \in 1..Len(shapes) :
       /\ shapes[j].type = "rect"
       /\ shapes[j].width = Ratio(150, 1)
       /\ shapes[j].height = Ratio(100, 1)

BaseKeys == {"id", "x", "y", "fill", "rotation", "type", "shadowBlur", "opacity"}

\* C9: generateShapes returns SHAPE_COUNT shapes, each of a known kind, with
\* integer x in [0, STAGE_WIDTH], y in [0, STAGE_HEIGHT], rotation in
\* [0, 360], a palette fill, the common opacity and shadowBlur, and exactly
\* its template's keys, the numeric ones scaled by size / 100 for one integer
\* size in [50, 150].
C9_GeneratedShapes ==
  ~isLoading =>
    /\ Len(shapes) = SHAPE_COUNT
    /\ \A j \in 1..SHAPE_COUNT :
         LET sh == shapes[j] IN
         /\ sh.type \in {"rect", "circle", "text", "star", "triangle", "hexagon"}
         /\ sh.x \in 0..STAGE_WIDTH
         /\ sh.y \in 0..STAGE_HEIGHT
         /\ sh.rotation \in 0..360
         /\ sh.fill \in {"#F00", "#0F0", "#00F", "#FF0", "#F0F", "#0FF"}
         /\ sh.opacity = <<3, 4>>
         /\ sh.shadowBlur = 5
         /\ DOMAIN sh = BaseKeys \cup DOMAIN ShapeDefaultsLiteral[sh.type]
         /\ \E size \in 50..150 :
              \A key \in DOMAIN ShapeDefaultsLiteral[sh.type] :
                IF key = "text"
                  THEN sh[key] = ShapeDefaultsLiteral[sh.type][key]
                  ELSE sh[key] = Ratio(ShapeDefaultsLiteral[sh.type][key] * size, 100)

\* A generated collection with a text at the far corner at full size and a
\* rect at the origin at least size.
C9_Witness ==
  /\ ~isLoading
  /\ \E j, k \in 1..SHAPE_COUNT :
       /\ shapes[j].type = "text" /\ shapes[j].x = 10000 /\ shapes[j].y = 10000
       /\ shapes[j].fontSize = <<150, 1>> /\ shapes[j].rotation = 360
       /\ shapes[k].type = "rect" /\ shapes[k].x = 0
       /\ shapes[k].width = <<50, 1>> /\ shapes[k].rotation = 0

\* C10: an update on the shape at index i leaves every other shape as it
\* was; on shape i a drag-end changes x and y only, a transform-end x, y,
\* width, height and rotation only.
C10_UpdateFrame ==
  [][UpdateStep =>
       LET i == lastEvent'.i + 1
           old == shapes[i]
           new == shapes'[i]
       IN /\ Len(shapes') = Len(shapes)
          /\ \A j \in 1..Len(shapes) : j # i => shapes'[j] = shapes[j]
          /\ lastEvent'.op = "dragEnd" =>
               /\ DOMAIN new = DOMAIN old
               /\ \A k \in DOMAIN old \ {"x", "y"} : new[k] = old[k]
          /\ lastEvent'.op = "transformEnd" =>
               /\ DOMAIN new = DOMAIN old \cup {"width", "height"}
               /\ \A k \in DOMAIN old \ {"x", "y", "width", "height", "rotation"} :
                    new[k] = old[k]]_vars

\* A resize of the second shape after a drag of the first: the drag is kept.
C10_Witness ==
  /\ lastEvent = [op |-> "transformEnd", i |-> 1, prev |-> "dragEnd"]
  /\ shapes[1].x = BigCoord /\ shapes[1].y = 1
  /\ shapes[2].x = 15 /\ shapes[2].width = Ratio(81, 4)
====
